---- MODULE Spec2Model ----
(***************************************************************************)
(* Chunk streaming and procedural terrain of the moonlit client            *)
(* (crates/client/src/main.rs).                                            *)
(*                                                                         *)
(* f32 world positions are fixed-point integers counting 1/Sub world       *)
(* units; noise values and noise positions are fixed-point integers        *)
(* counting 1/FP.  One frame of the engine is PreUpdate (input, the        *)
(* camera_movement observer), StateTransition (OnEnter(Playing) runs       *)
(* setup_camera), Update (the two chunk systems, in either order, each     *)
(* run to completion) and the application of the queued commands.          *)
(***************************************************************************)
EXTENDS Integers, Sequences, FiniteSets, TLC

VARIABLES state, stage, ran, camera, world_seed, spawned_chunks, entities,
          commands, last_tick, probe

vars == <<state, stage, ran, camera, world_seed, spawned_chunks, entities,
          commands, last_tick, probe>>

(***************************************************************************)
(* Bounds of the model.                                                    *)
(***************************************************************************)
\* fixed-point denominator of world positions (sub-units per world unit)
Sub == 2
\* fixed-point denominator of noise values and noise positions
FP == 100
\* the camera stays within MaxCam world units of the origin on each axis
MaxCam == 200
\* Time::delta_secs of a frame, in milliseconds
DeltaMs == 249
\* probed world positions lie within MaxProbe world units of the origin
MaxProbe == 165
\* the number of f32 steps below 2^31 probed at the far end of the world
MaxFar == 4
\* chunks generated on their own have coordinates within MaxChunk of zero
MaxChunk == 2
\* chunk coordinates taken through transform and back: within MaxRound of
\* zero and of the ends of the range
MaxRound == 5

(***************************************************************************)
(* Program constants.                                                      *)
(***************************************************************************)
TILE_SIZE == 16
CHUNK_SIZE == 10
CHUNK_RENDER_DISTANCE == 2

\* the range of i32, where `as i32` saturates
I32_MAX == 2147483647
I32_MIN == -I32_MAX - 1

\* A u64 is a tuple of five limbs in base Limb, most significant first.
Limb == 10000
U64_MAX == <<1844, 6744, 737, 955, 1615>>

\* WorldSeed::default()
ZeroSeed == <<0, 0, 0, 0, 0>>

\* the session seeds considered (GlobalRng::next_u64 in setup_camera)
Seeds == {<<0, 0, 0, 0, 7>>, <<0, 0, 0, 0, 9500>>}

NoCamera == <<>>

(***************************************************************************)
(* Arithmetic helpers.                                                     *)
(***************************************************************************)
\* Rust's integer `/`: the quotient truncated toward zero
TruncDiv(a, b) ==
  IF a >= 0 \/ a % b = 0 THEN a \div b ELSE (a \div b) + 1

\* f32::floor of a quotient: the quotient rounded toward negative infinity
FloorDiv(a, b) == a \div b

Abs(a) == IF a < 0 THEN -a ELSE a

\* Vec2::as_ivec2 on one component: `as i32` truncates toward zero and
\* saturates at the i32 range
as_i32(p) ==
  LET t == TruncDiv(p, Sub)
  IN  IF t < I32_MIN THEN I32_MIN ELSE IF t > I32_MAX THEN I32_MAX ELSE t

\* camera_pos_to_chunk_pos on one axis
AxisChunkTrunc(p) == TruncDiv(as_i32(p), CHUNK_SIZE * TILE_SIZE)

camera_pos_to_chunk_pos(camera_pos) ==
  <<AxisChunkTrunc(camera_pos[1]), AxisChunkTrunc(camera_pos[2])>>

\* whether the i32 sum a + b leaves the i32 range (a panic in a debug
\* build, a wrapped value in a release build)
i32_add_overflows(a, b) ==
  \/ b > 0 /\ a > I32_MAX - b
  \/ b < 0 /\ a < I32_MIN - b

\* whether the i32 product a * b, b a positive constant, leaves the range
i32_mul_overflows(a, b) ==
  \/ a > I32_MAX \div b
  \/ a < TruncDiv(I32_MIN, b)

\* `as i32` of an f32 coordinate.  An f32 is given as
\*   "sub"    n sub-units (a value with a fractional part),
\*   "whole"  n world units (every f32 from 2^23 on is an integer),
\*   "above" / "below"  a value beyond the i32 range, infinity included,
\*   "nan"    not a number.
f32_as_i32(v) ==
  CASE v.kind = "sub" -> as_i32(v.n)
    [] v.kind = "whole" -> v.n
    [] v.kind = "above" -> I32_MAX
    [] v.kind = "below" -> I32_MIN
    [] v.kind = "nan" -> 0

\* camera_pos_to_chunk_pos on one axis of such an f32
chunk_axis_of_f32(v) == TruncDiv(f32_as_i32(v), CHUNK_SIZE * TILE_SIZE)

\* whether the loop bounds camera_chunk_pos -/+ CHUNK_RENDER_DISTANCE wrap
range_overflows(c) ==
  \/ i32_add_overflows(c, -CHUNK_RENDER_DISTANCE)
  \/ i32_add_overflows(c, CHUNK_RENDER_DISTANCE)

\* faulty variant: the chunk coordinate scaled to world units, not to tiles
world_axis_overflows_units(chunk, local) ==
  \/ i32_mul_overflows(chunk, CHUNK_SIZE * TILE_SIZE)
  \/ i32_add_overflows(chunk * CHUNK_SIZE * TILE_SIZE, local)

\* whether chunk_pos * CHUNK_SIZE + local of spawn_chunk wraps
world_axis_overflows(chunk, local) ==
  \/ i32_mul_overflows(chunk, CHUNK_SIZE)
  \/ i32_add_overflows(chunk * CHUNK_SIZE, local)

\* the streaming arithmetic on one axis for an f32 camera coordinate: the
\* camera's chunk, then whether a loop bound or a world tile coordinate of a
\* requested chunk wraps
axis_scaling(v) ==
  LET c == chunk_axis_of_f32(v)
      wraps ==
        \/ range_overflows(c)
        \/ \E chunk \in (c - CHUNK_RENDER_DISTANCE)..(c + CHUNK_RENDER_DISTANCE) :
             \E local \in 0..(CHUNK_SIZE - 1) : world_axis_overflows(chunk, local)
  IN  <<c, IF wraps THEN 1 ELSE 0>>

\* a < b and a + n for u64 values a, b and a small n; the sum is a limb
\* tuple that may exceed U64_MAX
u64_lt(a, b) ==
  \E i \in 1..5 : a[i] < b[i] /\ \A j \in 1..(i - 1) : a[j] = b[j]

limb_add(a, n) ==
  LET s5 == a[5] + n
      s4 == a[4] + (s5 \div Limb)
      s3 == a[3] + (s4 \div Limb)
      s2 == a[2] + (s3 \div Limb)
      s1 == a[1] + (s2 \div Limb)
  IN  <<s1, s2 % Limb, s3 % Limb, s4 % Limb, s5 % Limb>>

\* a - b for limb tuples a >= b
limb_sub(a, b) ==
  LET d5 == a[5] - b[5]
      d4 == a[4] - b[4] - (IF d5 < 0 THEN 1 ELSE 0)
      d3 == a[3] - b[3] - (IF d4 < 0 THEN 1 ELSE 0)
      d2 == a[2] - b[2] - (IF d3 < 0 THEN 1 ELSE 0)
      d1 == a[1] - b[1] - (IF d2 < 0 THEN 1 ELSE 0)
  IN  <<d1, d2 % Limb, d3 % Limb, d4 % Limb, d5 % Limb>>

\* u64 `+`: the sum leaves the u64 range (a panic where overflow checks are
\* compiled in), and the sum modulo 2^64 that is computed where they are not
u64_add_overflows(a, n) == u64_lt(U64_MAX, limb_add(a, n))

u64_wrapping_add(a, n) ==
  IF u64_add_overflows(a, n)
  THEN limb_sub(limb_sub(limb_add(a, n), U64_MAX), <<0, 0, 0, 0, 1>>)
  ELSE limb_add(a, n)

\* u64 `% 10000`
u64_rem_10000(a) == a[5]

(***************************************************************************)
(* Noise field and tile classifier.                                        *)
(***************************************************************************)
\* fixed-point product and quotient of two values counted in 1/FP
FMul(a, b) == (a * b) \div FP

Clamp(v, lo, hi) == IF v < lo THEN lo ELSE IF v > hi THEN hi ELSE v

\* noisy_bevy's fbm_simplex_2d_seeded with one octave: a fixed function of
\* the sample point and the seed with values in [-1, 1].  seed_f counts
\* 1/10000.
fbm_simplex_2d_seeded(p, seed_f) ==
  ((p[1] * 31 + p[2] * 17 + seed_f * 7 + (p[1] * p[2]) * 3) % (2 * FP + 1)) - FP

\* the loop of fbm_safe: octaves left, running sum, amplitude and frequency
RECURSIVE fbm_loop(_, _, _, _, _, _, _, _)
fbm_loop(n, scaled_pos, lacunarity, gain, seed_f, sum, amplitude, frequency) ==
  IF n = 0 THEN sum
  ELSE LET value == fbm_simplex_2d_seeded(
                      <<FMul(scaled_pos[1], frequency),
                        FMul(scaled_pos[2], frequency)>>, seed_f)
       IN  fbm_loop(n - 1, scaled_pos, lacunarity, gain, seed_f,
                    sum + FMul(value, amplitude),
                    FMul(amplitude, gain), FMul(frequency, lacunarity))

\* seed_f of fbm_safe, counted in 1/10000
seed_f_of(seed) == u64_rem_10000(seed)

fbm_safe(pos, octaves, lacunarity, gain, seed) ==
  LET scaled_pos == <<pos[1] \div 10, pos[2] \div 10>>
      seed_f == seed_f_of(seed)
  IN  Clamp(fbm_loop(octaves, scaled_pos, lacunarity, gain, seed_f, 0, FP, FP),
            -FP, FP)

\* v < h/100 and v > h/100 for a value v counted in 1/FP
Below(v, h) == v * 100 < h * FP
Above(v, h) == v * 100 > h * FP

\* the tile-type ids of the palette
TileTypes == 0..5

\* faulty variant: the water band closed at its upper threshold
classify_closed_water(terrain, moisture) ==
  IF ~Above(terrain, -25) THEN 1
  ELSE IF Below(terrain, 0) THEN (IF Above(moisture, 30) THEN 0 ELSE 2)
  ELSE IF Below(terrain, 30) THEN (IF Above(moisture, 10) THEN 0 ELSE 2)
  ELSE IF Below(terrain, 55) THEN (IF Below(moisture, -20) THEN 4 ELSE 3)
  ELSE 5

\* faulty variant: a tile-type id outside the palette in the last branch
classify_off_palette(terrain, moisture) ==
  IF Below(terrain, -25) THEN 1
  ELSE IF Below(terrain, 0) THEN (IF Above(moisture, 30) THEN 0 ELSE 2)
  ELSE IF Below(terrain, 30) THEN (IF Above(moisture, 10) THEN 0 ELSE 2)
  ELSE IF Below(terrain, 55) THEN (IF Below(moisture, -20) THEN 4 ELSE 3)
  ELSE 6

\* the decision tree of get_tile_type on (terrain, moisture)
classify(terrain, moisture) ==
  IF Below(terrain, -25) THEN 1
  ELSE IF Below(terrain, 0) THEN (IF Above(moisture, 30) THEN 0 ELSE 2)
  ELSE IF Below(terrain, 30) THEN (IF Above(moisture, 10) THEN 0 ELSE 2)
  ELSE IF Below(terrain, 55) THEN (IF Below(moisture, -20) THEN 4 ELSE 3)
  ELSE 5

\* faulty variant: a moisture seed a multiple of 10000 away from the seed
moisture_seed_same_channel(seed) == u64_wrapping_add(seed, Limb)

\* the seed of the moisture sample, `seed + 1000`, where the sum is computed
moisture_seed(seed) == u64_wrapping_add(seed, 1000)

\* the two noise samples of get_tile_type
terrain_at(world_x, world_y, seed) ==
  LET pos == <<(world_x * 8 * FP) \div 100, (world_y * 8 * FP) \div 100>>
  IN  fbm_safe(pos, 4, 2 * FP, FP \div 2, seed)

moisture_at(world_x, world_y, seed) ==
  LET pos == <<(world_x * 8 * FP) \div 100, (world_y * 8 * FP) \div 100>>
  IN  fbm_safe(<<pos[1] + 100 * FP, pos[2] + 100 * FP>>, 3, 2 * FP, FP \div 2,
               moisture_seed(seed))

get_tile_type(world_x, world_y, seed) ==
  classify(terrain_at(world_x, world_y, seed),
           moisture_at(world_x, world_y, seed))

\* Builds: `+` on u64 panics on overflow where overflow checks are compiled
\* in (the dev profile) and wraps where they are not (the release profile).
Builds == {"dev", "release"}

\* one call of get_tile_type: whether it returns, the tile type it returns,
\* whether seed + 1000 left the u64 range, and the seed_f of the two samples
get_tile_type_call(build, world_x, world_y, seed) ==
  IF u64_add_overflows(seed, 1000) /\ build = "dev"
  THEN [returned |-> FALSE, overflow |-> TRUE, id |-> -1,
        terrain_seed_f |-> seed_f_of(seed), moisture_seed_f |-> -1]
  ELSE [returned |-> TRUE, overflow |-> u64_add_overflows(seed, 1000),
        id |-> get_tile_type(world_x, world_y, seed),
        terrain_seed_f |-> seed_f_of(seed),
        moisture_seed_f |-> seed_f_of(moisture_seed(seed))]

(***************************************************************************)
(* Chunk generation.                                                       *)
(***************************************************************************)
TilePos == (0..(CHUNK_SIZE - 1)) \X (0..(CHUNK_SIZE - 1))

\* faulty variant: chunks laid out one tile short of the chunk size
world_tile_overlapping(chunk_pos, tile_pos) ==
  <<chunk_pos[1] * (CHUNK_SIZE - 1) + tile_pos[1],
    chunk_pos[2] * (CHUNK_SIZE - 1) + tile_pos[2]>>

\* (world_x, world_y) of spawn_chunk for the tile at tile_pos
world_tile(chunk_pos, tile_pos) ==
  <<chunk_pos[1] * CHUNK_SIZE + tile_pos[1],
    chunk_pos[2] * CHUNK_SIZE + tile_pos[2]>>

\* every integer of magnitude up to 2^24 is an f32, so f32 products of
\* integers within that magnitude are exact
F32_EXACT == 16777216

\* faulty variant: the tilemap centred on the chunk's origin
chunk_translation_centered(chunk_pos) ==
  <<(chunk_pos[1] * CHUNK_SIZE * TILE_SIZE - (CHUNK_SIZE * TILE_SIZE) \div 2) * Sub,
    (chunk_pos[2] * CHUNK_SIZE * TILE_SIZE - (CHUNK_SIZE * TILE_SIZE) \div 2) * Sub>>

\* the (x, y) translation of a chunk's tilemap, in sub-units; the f32
\* products are the exact ones while the translation is within F32_EXACT
chunk_translation(chunk_pos) ==
  <<chunk_pos[1] * CHUNK_SIZE * TILE_SIZE * Sub,
    chunk_pos[2] * CHUNK_SIZE * TILE_SIZE * Sub>>

\* the spawn command spawn_chunk queues for the reserved entity id: the
\* tilemap with its tile storage, transform and the seed it was built with
spawn_chunk(entity, seed, chunk_pos) ==
  [op |-> "spawn",
   entity |-> entity,
   translation |-> chunk_translation(chunk_pos),
   storage |-> [tp \in TilePos |->
                  LET world == world_tile(chunk_pos, tp)
                  IN  get_tile_type(world[1], world[2], seed)],
   seed |-> seed]

\* faulty variant: the translation divided by the tile size alone
chunk_coord_of_tiles(translation) ==
  <<FloorDiv(translation[1], TILE_SIZE * Sub),
    FloorDiv(translation[2], TILE_SIZE * Sub)>>

\* the chunk coordinate despawn_outofrange_chunks recovers from a transform
chunk_coord_of(translation) ==
  <<FloorDiv(translation[1], CHUNK_SIZE * TILE_SIZE * Sub),
    FloorDiv(translation[2], CHUNK_SIZE * TILE_SIZE * Sub)>>

(***************************************************************************)
(* State of the application.                                               *)
(*   state          GameState                                              *)
(*   stage          the schedule of the frame that runs next               *)
(*   ran            the Update systems that have run in this frame         *)
(*   camera         the camera's Transform translation, or NoCamera        *)
(*   world_seed     WorldSeed.seed                                         *)
(*   spawned_chunks ChunkManager.spawned_chunks                            *)
(*   entities       the entities carrying ChunkMarker                      *)
(*   commands       the commands queued and not yet applied                *)
(*   last_tick      the camera translation the last completed Update saw   *)
(*   probe          input and result of a function applied on its own      *)
(***************************************************************************)
NoProbe == [op |-> "none", in |-> <<>>, out |-> <<>>]

Init ==
  /\ state = "Loading"
  /\ stage = "PreUpdate"
  /\ ran = {}
  /\ camera = NoCamera
  /\ world_seed = ZeroSeed
  /\ spawned_chunks = {}
  /\ entities = {}
  /\ commands = <<>>
  /\ last_tick = NoCamera
  /\ probe = NoProbe

\* the values a Cardinal (WASD / arrows) binding gives the action
InputValues == {-1, 0, 1} \X {-1, 0, 1}

InBounds(translation) ==
  /\ Abs(translation[1]) <= MaxCam * Sub
  /\ Abs(translation[2]) <= MaxCam * Sub

\* faulty variant: the translation amount also added to z
camera_movement_lifting(value, delta_ms) ==
  /\ stage = "PreUpdate"
  /\ camera # NoCamera
  /\ LET translation_amount == (delta_ms * 200 * Sub) \div 1000
         moved == <<camera[1] + value[1] * translation_amount,
                    camera[2] + value[2] * translation_amount,
                    camera[3] + translation_amount>>
     IN  /\ InBounds(moved)
         /\ camera' = moved
  /\ stage' = "StateTransition"
  /\ UNCHANGED <<state, ran, world_seed, spawned_chunks, entities, commands,
                 last_tick, probe>>

\* observer of Fire<CameraMovement>, triggered while input is evaluated
camera_movement(value, delta_ms) ==
  /\ stage = "PreUpdate"
  /\ camera # NoCamera
  /\ LET translation_amount == (delta_ms * 200 * Sub) \div 1000
         moved == <<camera[1] + value[1] * translation_amount,
                    camera[2] + value[2] * translation_amount,
                    camera[3] + 0>>
     IN  /\ InBounds(moved)
         /\ camera' = moved
  /\ stage' = "StateTransition"
  /\ UNCHANGED <<state, ran, world_seed, spawned_chunks, entities, commands,
                 last_tick, probe>>

\* a frame in which the action does not fire
NoInput ==
  /\ stage = "PreUpdate"
  /\ stage' = "StateTransition"
  /\ UNCHANGED <<state, ran, camera, world_seed, spawned_chunks, entities,
                 commands, last_tick, probe>>

\* faulty variant: setup_camera scheduled in every frame, drawing a seed each time
setup_camera_every_frame ==
  /\ stage = "StateTransition"
  /\ state' = "Playing"
  /\ world_seed' \in Seeds
  /\ camera' = IF camera = NoCamera THEN <<0, 0, 0>> ELSE camera
  /\ stage' = "Update"
  /\ UNCHANGED <<ran, spawned_chunks, entities, commands, last_tick, probe>>

\* OnEnter(GameState::Playing): the loading state continues to Playing and
\* setup_camera draws the seed and spawns the camera
setup_camera ==
  /\ stage = "StateTransition"
  /\ state = "Loading"
  /\ state' = "Playing"
  /\ world_seed' \in Seeds
  /\ camera' = <<0, 0, 0>>
  /\ stage' = "Update"
  /\ UNCHANGED <<ran, spawned_chunks, entities, commands, last_tick, probe>>

\* a frame without a state transition
NoTransition ==
  /\ stage = "StateTransition"
  /\ stage' = "Update"
  /\ UNCHANGED <<state, ran, camera, world_seed, spawned_chunks, entities,
                 commands, last_tick, probe>>

\* faulty variant: the range one chunk short on both sides
axis_range_adjacent(c, distance) == [i \in 1..(2 * distance - 1) |-> c - distance + i]

\* faulty variant: the range lo .. hi, without its upper end
axis_range_exclusive(c, distance) == [i \in 1..(2 * distance) |-> c - distance + i - 1]

\* the coordinates lo ..= hi around c, in loop order
axis_range(c, distance) == [i \in 1..(2 * distance + 1) |-> c - distance + i - 1]

\* the coordinates the nested loops of spawn_chunks_around_camera visit,
\* y outer and x inner
wanted_chunks(camera_chunk_pos) ==
  LET xs == axis_range(camera_chunk_pos[1], CHUNK_RENDER_DISTANCE)
      ys == axis_range(camera_chunk_pos[2], CHUNK_RENDER_DISTANCE)
  IN  [i \in 1..(Len(xs) * Len(ys)) |->
         <<xs[((i - 1) % Len(xs)) + 1], ys[((i - 1) \div Len(xs)) + 1]>>]

\* the entity ids in use: the chunk entities and the ids reserved by queued
\* spawn commands
UsedIds(ents, cmds) ==
  {e.id : e \in ents} \cup
  {cmds[i].entity : i \in {j \in 1..Len(cmds) : cmds[j].op = "spawn"}}

\* commands.spawn_empty().id(): an entity id no entity and no queued command
\* holds.  Ids are opaque; the model names a fresh one after the coordinate
\* it is reserved for, with a serial number that tells apart the ids
\* reserved for one coordinate.
FreshId(used, chunk_pos) ==
  LET n == CHOOSE k \in 0..Cardinality(used) :
             /\ <<chunk_pos[1], chunk_pos[2], k>> \notin used
             /\ \A j \in 0..(k - 1) : <<chunk_pos[1], chunk_pos[2], j>> \in used
  IN  <<chunk_pos[1], chunk_pos[2], n>>

\* faulty variant: the membership test left out
not_spawned_always(chunk_manager, chunk_pos) == TRUE

\* the membership test guarding spawn_chunk
not_spawned(chunk_manager, chunk_pos) == chunk_pos \notin chunk_manager

\* faulty variants: the registry update left out
insert_forgotten(chunk_manager, chunk_pos) == chunk_manager
remove_forgotten(chunk_manager, chunk_coords) == chunk_manager

\* HashSet::insert and HashSet::remove on ChunkManager.spawned_chunks
insert(chunk_manager, chunk_pos) == chunk_manager \cup {chunk_pos}
remove(chunk_manager, chunk_coords) == chunk_manager \ chunk_coords

\* the loop body of spawn_chunks_around_camera over the wanted coordinates
RECURSIVE spawn_loop(_, _, _, _)
spawn_loop(coords, chunk_manager, cmds, seed) ==
  IF coords = <<>> THEN [chunk_manager |-> chunk_manager, cmds |-> cmds]
  ELSE LET chunk_pos == Head(coords)
       IN  IF not_spawned(chunk_manager, chunk_pos)
           THEN spawn_loop(Tail(coords), insert(chunk_manager, chunk_pos),
                           Append(cmds,
                                  spawn_chunk(FreshId(UsedIds(entities, cmds),
                                                      chunk_pos),
                                              seed, chunk_pos)),
                           seed)
           ELSE spawn_loop(Tail(coords), chunk_manager, cmds, seed)

spawn_chunks_around_camera ==
  /\ stage = "Update"
  /\ state = "Playing"
  /\ "spawn" \notin ran
  /\ ran' = ran \cup {"spawn"}
  /\ IF camera = NoCamera
     THEN UNCHANGED <<spawned_chunks, commands>>
     ELSE LET camera_chunk_pos == camera_pos_to_chunk_pos(<<camera[1], camera[2]>>)
              r == spawn_loop(wanted_chunks(camera_chunk_pos), spawned_chunks,
                              commands, world_seed)
          IN  /\ spawned_chunks' = r.chunk_manager
              /\ commands' = r.cmds
  /\ UNCHANGED <<state, stage, camera, world_seed, entities, last_tick, probe>>

\* faulty variant: >= in place of >
out_of_range_inclusive(chunk_coord, camera_chunk_pos) ==
  \/ Abs(chunk_coord[1] - camera_chunk_pos[1]) >= CHUNK_RENDER_DISTANCE
  \/ Abs(chunk_coord[2] - camera_chunk_pos[2]) >= CHUNK_RENDER_DISTANCE

\* the eviction test of despawn_outofrange_chunks
out_of_range(chunk_coord, camera_chunk_pos) ==
  \/ Abs(chunk_coord[1] - camera_chunk_pos[1]) > CHUNK_RENDER_DISTANCE
  \/ Abs(chunk_coord[2] - camera_chunk_pos[2]) > CHUNK_RENDER_DISTANCE

\* the order in which the query yields entity ids
IdBefore(a, b) ==
  \/ a[1] < b[1]
  \/ a[1] = b[1] /\ a[2] < b[2]
  \/ a[1] = b[1] /\ a[2] = b[2] /\ a[3] <= b[3]

\* the ids of a set of entities in query order
RECURSIVE IdSeq(_)
IdSeq(ids) ==
  IF ids = {} THEN <<>>
  ELSE LET m == CHOOSE i \in ids : \A j \in ids : IdBefore(i, j)
       IN  <<m>> \o IdSeq(ids \ {m})

despawn_outofrange_chunks ==
  /\ stage = "Update"
  /\ state = "Playing"
  /\ "despawn" \notin ran
  /\ ran' = ran \cup {"despawn"}
  /\ IF camera = NoCamera
     THEN UNCHANGED <<spawned_chunks, commands>>
     ELSE LET camera_chunk_pos == camera_pos_to_chunk_pos(<<camera[1], camera[2]>>)
              gone == {e \in entities :
                         out_of_range(chunk_coord_of(e.translation),
                                      camera_chunk_pos)}
              ids == IdSeq({e.id : e \in gone})
          IN  /\ spawned_chunks' =
                   remove(spawned_chunks,
                          {chunk_coord_of(e.translation) : e \in gone})
              /\ commands' = commands \o
                   [i \in 1..Len(ids) |-> [op |-> "despawn", entity |-> ids[i]]]
  /\ UNCHANGED <<state, stage, camera, world_seed, entities, last_tick, probe>>

\* the effect of the queued commands on the chunk entities
RECURSIVE apply_commands(_, _)
apply_commands(cmds, ents) ==
  IF cmds = <<>> THEN ents
  ELSE LET c == Head(cmds)
       IN  IF c.op = "spawn"
           THEN apply_commands(Tail(cmds),
                  ents \cup {[id |-> c.entity, translation |-> c.translation,
                              storage |-> c.storage, seed |-> c.seed]})
           ELSE apply_commands(Tail(cmds), {e \in ents : e.id # c.entity})

\* the end of the Update schedule: the deferred commands are applied
apply_deferred ==
  /\ stage = "Update"
  /\ state = "Playing" => ran = {"spawn", "despawn"}
  /\ entities' = apply_commands(commands, entities)
  /\ commands' = <<>>
  /\ ran' = {}
  /\ stage' = "PreUpdate"
  /\ last_tick' = IF state = "Playing" THEN camera ELSE last_tick
  /\ UNCHANGED <<state, camera, world_seed, spawned_chunks, probe>>

Next ==
  \/ \E value \in InputValues : camera_movement(value, DeltaMs)
  \/ NoInput
  \/ setup_camera
  \/ NoTransition
  \/ spawn_chunks_around_camera
  \/ despawn_outofrange_chunks
  \/ apply_deferred

Spec == Init /\ [][Next]_vars

(***************************************************************************)
(* Functions applied on their own: the input is drawn in the initial       *)
(* state and one step applies the function.                                *)
(***************************************************************************)
ProbeCoords == (-(MaxProbe * Sub))..(MaxProbe * Sub)

\* the probed positions: every x of the range, with y near x, opposite to x
\* or zero
ProbePositions ==
  {p \in ProbeCoords \X ProbeCoords :
     Abs(p[2] - p[1]) <= Sub \/ p[2] = -p[1] \/ p[2] = 0}

InitChunkPos ==
  /\ state = "Loading" /\ stage = "PreUpdate" /\ ran = {}
  /\ camera = NoCamera /\ world_seed = ZeroSeed /\ spawned_chunks = {}
  /\ entities = {} /\ commands = <<>> /\ last_tick = NoCamera
  /\ probe \in {[op |-> "camera_pos_to_chunk_pos", in |-> p, out |-> <<>>] :
                  p \in ProbePositions}

ApplyChunkPos ==
  /\ probe.op = "camera_pos_to_chunk_pos"
  /\ probe.out = <<>>
  /\ probe' = [probe EXCEPT !.out = camera_pos_to_chunk_pos(probe.in)]
  /\ UNCHANGED <<state, stage, ran, camera, world_seed, spawned_chunks,
                 entities, commands, last_tick>>

SpecChunkPos == InitChunkPos /\ [][ApplyChunkPos]_vars

\* terrain and moisture values in [-1, 1]
NoiseValues == (-FP)..FP

InitClassify ==
  /\ state = "Loading" /\ stage = "PreUpdate" /\ ran = {}
  /\ camera = NoCamera /\ world_seed = ZeroSeed /\ spawned_chunks = {}
  /\ entities = {} /\ commands = <<>> /\ last_tick = NoCamera
  /\ probe \in {[op |-> "get_tile_type", in |-> <<terrain, moisture>>, out |-> <<>>] :
                  terrain \in NoiseValues, moisture \in NoiseValues}

ApplyClassify ==
  /\ probe.op = "get_tile_type"
  /\ probe.out = <<>>
  /\ probe' = [probe EXCEPT !.out = <<classify(probe.in[1], probe.in[2])>>]
  /\ UNCHANGED <<state, stage, ran, camera, world_seed, spawned_chunks,
                 entities, commands, last_tick>>

SpecClassify == InitClassify /\ [][ApplyClassify]_vars

\* the f32 camera coordinates the scaling is applied to: around the origin,
\* at the largest magnitudes an f32 below 2^31 takes (multiples of 128), and
\* beyond the i32 range
FarF32 ==
  {[kind |-> "sub", n |-> n] : n \in (-(Sub + 1))..(Sub + 1)} \cup
  {[kind |-> "whole", n |-> s * (I32_MAX - 127 - 128 * k)] :
     s \in {-1, 1}, k \in 0..MaxFar} \cup
  {[kind |-> k, n |-> 0] : k \in {"above", "below", "nan"}}

InitScaling ==
  /\ state = "Loading" /\ stage = "PreUpdate" /\ ran = {}
  /\ camera = NoCamera /\ world_seed = ZeroSeed /\ spawned_chunks = {}
  /\ entities = {} /\ commands = <<>> /\ last_tick = NoCamera
  /\ probe \in {[op |-> "scaling", in |-> <<x, y>>, out |-> <<>>] :
                  x \in FarF32, y \in FarF32}

ApplyScaling ==
  /\ probe.op = "scaling"
  /\ probe.out = <<>>
  /\ probe' = [probe EXCEPT !.out = <<axis_scaling(probe.in[1]),
                                      axis_scaling(probe.in[2])>>]
  /\ UNCHANGED <<state, stage, ran, camera, world_seed, spawned_chunks,
                 entities, commands, last_tick>>

SpecScaling == InitScaling /\ [][ApplyScaling]_vars

\* the chunk coordinates generated on their own, and the world tiles they
\* are to cover
ChunkCoords == ((-MaxChunk)..MaxChunk) \X ((-MaxChunk)..MaxChunk)
WorldTiles ==
  ((-MaxChunk * CHUNK_SIZE)..(MaxChunk * CHUNK_SIZE + CHUNK_SIZE - 1)) \X
  ((-MaxChunk * CHUNK_SIZE)..(MaxChunk * CHUNK_SIZE + CHUNK_SIZE - 1))

\* the (chunk, tile position) pairs whose tile spawn_chunk takes from a
\* world tile
owners(world) ==
  {ct \in ChunkCoords \X TilePos : world_tile(ct[1], ct[2]) = world}

InitChunk ==
  /\ state = "Loading" /\ stage = "PreUpdate" /\ ran = {}
  /\ camera = NoCamera /\ world_seed = ZeroSeed /\ spawned_chunks = {}
  /\ entities = {} /\ commands = <<>> /\ last_tick = NoCamera
  /\ probe \in
       {[op |-> "spawn_chunk", in |-> <<c, seed>>, out |-> <<>>] :
          c \in ChunkCoords, seed \in Seeds} \cup
       {[op |-> "world_tile", in |-> w, out |-> <<>>] : w \in WorldTiles}

ApplySpawnChunk ==
  /\ probe.op = "spawn_chunk"
  /\ probe.out = <<>>
  /\ probe' = [probe EXCEPT !.out =
                 <<spawn_chunk(FreshId({}, probe.in[1]), probe.in[2], probe.in[1])>>]
  /\ UNCHANGED <<state, stage, ran, camera, world_seed, spawned_chunks,
                 entities, commands, last_tick>>

ApplyWorldTile ==
  /\ probe.op = "world_tile"
  /\ probe.out = <<>>
  /\ probe' = [probe EXCEPT !.out = <<owners(probe.in)>>]
  /\ UNCHANGED <<state, stage, ran, camera, world_seed, spawned_chunks,
                 entities, commands, last_tick>>

SpecChunk == InitChunk /\ [][ApplySpawnChunk \/ ApplyWorldTile]_vars

\* the seeds get_tile_type is called with on its own: every seed % 10000
\* at the low end of u64, across a carry into the upper limbs, and at the
\* high end up to u64::MAX
SeedProbe ==
  {<<0, 0, 0, 0, r>> : r \in 0..(Limb - 1)} \cup
  {<<0, 0, Limb - 1, Limb - 1, r>> : r \in 0..(Limb - 1)} \cup
  {<<U64_MAX[1], U64_MAX[2], U64_MAX[3], U64_MAX[4], r>> : r \in 0..U64_MAX[5]}

TileProbe == {<<0, 0>>, <<-7, 12>>}

InitSeed ==
  /\ state = "Loading" /\ stage = "PreUpdate" /\ ran = {}
  /\ camera = NoCamera /\ world_seed = ZeroSeed /\ spawned_chunks = {}
  /\ entities = {} /\ commands = <<>> /\ last_tick = NoCamera
  /\ probe \in {[op |-> "seed", in |-> <<build, seed, tile>>, out |-> <<>>] :
                  build \in Builds, seed \in SeedProbe, tile \in TileProbe}

ApplySeed ==
  /\ probe.op = "seed"
  /\ probe.out = <<>>
  /\ probe' = [probe EXCEPT !.out =
                 <<get_tile_type_call(probe.in[1], probe.in[3][1],
                                      probe.in[3][2], probe.in[2])>>]
  /\ UNCHANGED <<state, stage, ran, camera, world_seed, spawned_chunks,
                 entities, commands, last_tick>>

SpecSeed == InitSeed /\ [][ApplySeed]_vars

\* chunk coordinates around zero and at both ends of the 10^5 tiles a world
\* extends to on each side
RoundTripCoords ==
  ((-MaxRound)..MaxRound) \cup
  {s * (10000 - k) : s \in {-1, 1}, k \in 0..MaxRound}

InitRoundTrip ==
  /\ state = "Loading" /\ stage = "PreUpdate" /\ ran = {}
  /\ camera = NoCamera /\ world_seed = ZeroSeed /\ spawned_chunks = {}
  /\ entities = {} /\ commands = <<>> /\ last_tick = NoCamera
  /\ probe \in {[op |-> "round_trip", in |-> <<x, y>>, out |-> <<>>] :
                  x \in RoundTripCoords, y \in RoundTripCoords}

\* the transform spawn_chunk gives the chunk, and the coordinate
\* despawn_outofrange_chunks reads back from it
ApplyRoundTrip ==
  /\ probe.op = "round_trip"
  /\ probe.out = <<>>
  /\ probe' = [probe EXCEPT !.out =
                 <<chunk_translation(probe.in),
                   chunk_coord_of(chunk_translation(probe.in))>>]
  /\ UNCHANGED <<state, stage, ran, camera, world_seed, spawned_chunks,
                 entities, commands, last_tick>>

SpecRoundTrip == InitRoundTrip /\ [][ApplyRoundTrip]_vars

(***************************************************************************)
(* Properties.                                                             *)
(***************************************************************************)
\* the chunk coordinates of a set of chunk entities
Coords(ents) == {chunk_coord_of(e.translation) : e \in ents}

\* the chunk the streaming systems place the camera in
CameraChunk == camera_pos_to_chunk_pos(<<camera[1], camera[2]>>)

\* the positions of the queued commands of one kind
Queued(op) == {i \in 1..Len(commands) : commands[i].op = op}

\* the square of side 2 * 2 + 1 around a chunk coordinate
Square(c) == ((c[1] - 2)..(c[1] + 2)) \X ((c[2] - 2)..(c[2] + 2))

C2_Unique ==
  \A e1, e2 \in entities :
    chunk_coord_of(e1.translation) = chunk_coord_of(e2.translation) => e1 = e2

\* after a tick that followed camera moves into chunk (-1, -1): chunks were
\* spawned and evicted on the way
C2_Witness ==
  /\ state = "Playing"
  /\ stage = "PreUpdate"
  /\ last_tick = camera
  /\ CameraChunk = <<-1, -1>>
  /\ Cardinality(entities) = 25

\* C3: camera_pos_to_chunk_pos is the component-wise floor of
\* position / (chunk size * tile size).
C3_FloorChunkPos ==
  (probe.op = "camera_pos_to_chunk_pos" /\ probe.out # <<>>) =>
    probe.out = <<probe.in[1] \div (10 * 16 * Sub), probe.in[2] \div (10 * 16 * Sub)>>

\* C4: once spawn_chunks_around_camera has run in a tick, every coordinate
\* of the 5x5 square around the camera's chunk is in the registry and has a
\* chunk entity, existing or queued for spawning.
C4_Coverage ==
  (state = "Playing" /\ "spawn" \in ran) =>
    \A c \in Square(CameraChunk) :
      /\ c \in spawned_chunks
      /\ c \in Coords(apply_commands(commands, entities))

\* the spawn system has run with the camera in a negative chunk and queued
\* spawns
C4_Witness ==
  /\ "spawn" \in ran
  /\ CameraChunk = <<-1, -1>>
  /\ Queued("spawn") # {}

\* C5: over a tick, a chunk entity whose coordinate is more than 2 away from
\* the camera's chunk on either axis is despawned and its coordinate leaves
\* the registry; a chunk entity within 2 on both axes stays, and so does its
\* coordinate.
C5_Eviction ==
  [][(state = "Playing" /\ stage = "Update" /\ stage' = "PreUpdate") =>
       \A e \in entities :
         LET c == chunk_coord_of(e.translation)
             far == \/ Abs(c[1] - CameraChunk[1]) > 2
                    \/ Abs(c[2] - CameraChunk[2]) > 2
         IN  /\ far => (e \notin entities' /\ c \notin spawned_chunks')
             /\ ~far => (e \in entities' /\ c \in spawned_chunks')]_vars

\* both systems have run, a chunk 3 away from the camera's chunk is queued
\* for despawning and a chunk 2 away is not
C5_Witness ==
  /\ ran = {"spawn", "despawn"}
  /\ \E e \in entities :
       /\ Abs(chunk_coord_of(e.translation)[1] - CameraChunk[1]) = 3
       /\ \E i \in Queued("despawn") : commands[i].entity = e.id
  /\ \E e \in entities :
       /\ Abs(chunk_coord_of(e.translation)[1] - CameraChunk[1]) = 2
       /\ Abs(chunk_coord_of(e.translation)[2] - CameraChunk[2]) <= 2
       /\ \A i \in Queued("despawn") : commands[i].entity # e.id

\* C6: in a tick that finds the camera where the previous tick left it, no
\* step queues a command and no step changes the registry or the chunk
\* entities.
C6_Idempotent ==
  [][(state = "Playing" /\ stage = "Update" /\ last_tick = camera) =>
       /\ commands' = <<>>
       /\ spawned_chunks' = spawned_chunks
       /\ entities' = entities]_vars

\* a second tick with the camera unchanged, away from the origin, both
\* systems done
C6_Witness ==
  /\ state = "Playing"
  /\ stage = "Update"
  /\ last_tick = camera
  /\ ran = {"spawn", "despawn"}
  /\ CameraChunk = <<1, -1>>
  /\ Cardinality(entities) = 25

\* C7: a step queues a spawn for a coordinate only if the coordinate was not
\* in the registry, no chunk entity had it and no other queued spawn has it;
\* the step puts the coordinate into the registry.
C7_NoRegeneration ==
  [][\A i \in (Len(commands) + 1)..Len(commands') :
       commands'[i].op = "spawn" =>
         LET c == chunk_coord_of(commands'[i].translation)
         IN  /\ c \notin spawned_chunks
             /\ c \in spawned_chunks'
             /\ c \notin Coords(entities)
             /\ \A j \in 1..Len(commands') :
                  (j # i /\ commands'[j].op = "spawn") =>
                    chunk_coord_of(commands'[j].translation) # c]_vars

\* a later tick: chunks kept from the tick before stay while new ones are
\* queued for spawning
C7_Witness ==
  /\ last_tick # NoCamera
  /\ "spawn" \in ran
  /\ Queued("spawn") # {}
  /\ Cardinality(entities) = 25

\* C8: the seed changes only in the step that enters Playing, no chunk
\* exists or is queued before that step, and every chunk entity and every
\* queued spawn was built with the current seed.
C8_SeedStable ==
  /\ [](state = "Loading" =>
          entities = {} /\ commands = <<>> /\ spawned_chunks = {})
  /\ [](\A e \in entities : e.seed = world_seed)
  /\ [](\A i \in Queued("spawn") : commands[i].seed = world_seed)
  /\ [][world_seed' # world_seed => (state = "Loading" /\ state' = "Playing")]_vars
  /\ [][state = "Playing" => world_seed' = world_seed]_vars

\* a later tick of a session: chunks of earlier ticks exist and new ones are
\* queued, all with the session's seed
C8_Witness ==
  /\ state = "Playing"
  /\ world_seed = <<0, 0, 0, 0, 9500>>
  /\ last_tick # NoCamera
  /\ CameraChunk # <<0, 0>>
  /\ entities # {}
  /\ Queued("spawn") # {}

\* C10: for every terrain and moisture in [-1, 1] the decision tree returns
\* a tile-type id of the palette 0..5.
C10_ClassifierTotal ==
  (probe.op = "get_tile_type" /\ probe.out # <<>>) =>
    probe.out[1] \in {0, 1, 2, 3, 4, 5}

\* the corner terrain = 1, moisture = -1 has been classified
C10_Witness ==
  /\ probe.op = "get_tile_type"
  /\ probe.in = <<FP, -FP>>
  /\ probe.out = <<5>>

\* C11: for every f32 camera coordinate, the loop bounds camera chunk -/+ 2
\* and the world tile coordinates chunk * 10 + local, local in 0..9, of the
\* requested chunks do not leave the i32 range; the camera chunk is at most
\* 2^31 / 160 in magnitude.
C11_NoOverflow ==
  (probe.op = "scaling" /\ probe.out # <<>>) =>
    \A a \in 1..2 :
      /\ probe.out[a][2] = 0
      /\ Abs(probe.out[a][1]) <= 13421772
      /\ (probe.out[a][1] + 2) * 10 + 9 <= I32_MAX
      /\ (probe.out[a][1] - 2) * 10 >= I32_MIN

\* the camera saturated at both ends of the i32 range
C11_Witness ==
  /\ probe.op = "scaling"
  /\ probe.in[1].kind = "above"
  /\ probe.in[2].kind = "below"
  /\ probe.out = <<<<13421772, 0>>, <<-13421772, 0>>>>

\* C12: each of the two systems runs as one step, and whichever of them
\* runs first in a tick, once the tick's commands are applied the registry
\* and the coordinates of the chunk entities are exactly the 5x5 square
\* around the chunk of the camera the tick saw, one entity per coordinate.
C12_OrderIndependent ==
  (state = "Playing" /\ last_tick # NoCamera /\ ran = {}) =>
    LET square == Square(camera_pos_to_chunk_pos(<<last_tick[1], last_tick[2]>>))
    IN  /\ commands = <<>>
        /\ spawned_chunks = square
        /\ Coords(entities) = square
        /\ Cardinality(entities) = 25

\* a tick has ended with the camera in chunk (1, 1), reached by moves that
\* made the tick both spawn and despawn
C12_Witness ==
  /\ state = "Playing"
  /\ stage = "PreUpdate"
  /\ last_tick = camera
  /\ CameraChunk = <<1, 1>>
  /\ spawned_chunks = Square(<<1, 1>>)
  /\ Coords(entities) = Square(<<1, 1>>)

\* C13: the tile spawn_chunk stores at (x, y) of chunk (cx, cy) has the type
\* of world tile (cx * 10 + x, cy * 10 + y), for all 100 cells, and every
\* world tile, negative ones included, is the tile of exactly one (chunk,
\* cell) pair: the chunk floor(w / 10) and the cell w mod 10.
C13_TilesWorld ==
  /\ (probe.op = "spawn_chunk" /\ probe.out # <<>>) =>
       /\ DOMAIN probe.out[1].storage = (0..9) \X (0..9)
       /\ \A x \in 0..9, y \in 0..9 :
            probe.out[1].storage[<<x, y>>] =
              get_tile_type(probe.in[1][1] * 10 + x, probe.in[1][2] * 10 + y,
                            probe.in[2])
  /\ (probe.op = "world_tile" /\ probe.out # <<>>) =>
       probe.out[1] =
         {<<<<probe.in[1] \div 10, probe.in[2] \div 10>>,
            <<probe.in[1] % 10, probe.in[2] % 10>>>>}

\* a chunk with negative coordinates has been generated
C13_Witness ==
  /\ probe.op = "spawn_chunk"
  /\ probe.in[1] = <<-2, -1>>
  /\ probe.out # <<>>
  /\ probe.out[1].storage[<<9, 0>>] = get_tile_type(-11, -10, probe.in[2])

\* C14: on (terrain, moisture), counted in 1/FP: terrain < -0.25 gives 1;
\* -0.25 <= terrain < 0 gives 0 if moisture > 0.3, else 2; 0 <= terrain < 0.3
\* gives 0 if moisture > 0.1, else 2; 0.3 <= terrain < 0.55 gives 4 if
\* moisture < -0.2, else 3; terrain >= 0.55 gives 5.  A threshold value is in
\* the upper band.
C14_DecisionTree ==
  (probe.op = "get_tile_type" /\ probe.out # <<>>) =>
    LET t == probe.in[1] * 100
        m == probe.in[2] * 100
        id == probe.out[1]
    IN  /\ (t < -25 * FP) => id = 1
        /\ (-25 * FP <= t /\ t < 0) =>
             /\ (m > 30 * FP) => id = 0
             /\ (m <= 30 * FP) => id = 2
        /\ (0 <= t /\ t < 30 * FP) =>
             /\ (m > 10 * FP) => id = 0
             /\ (m <= 10 * FP) => id = 2
        /\ (30 * FP <= t /\ t < 55 * FP) =>
             /\ (m < -20 * FP) => id = 4
             /\ (m >= -20 * FP) => id = 3
        /\ (t >= 55 * FP) => id = 5

\* terrain = 0.3 with moisture = -0.2, both on a threshold, classified as
\* forest
C14_Witness ==
  /\ probe.op = "get_tile_type"
  /\ probe.in[1] * 100 = 30 * FP
  /\ probe.in[2] * 100 = -20 * FP
  /\ probe.out = <<3>>

\* C15: for every u64 seed and world tile, get_tile_type returns a tile type
\* and seed + 1000 stays within the u64 range: no overflow panic, no wrap.
C15_SeedTotal ==
  (probe.op = "seed" /\ probe.out # <<>>) =>
    /\ probe.out[1].returned
    /\ ~probe.out[1].overflow
    /\ probe.out[1].id \in 0..5

\* C16: for every seed with which get_tile_type returns, the seed_f of the
\* terrain sample differs from the seed_f of the moisture sample.
C16_DistinctChannels ==
  (probe.op = "seed" /\ probe.out # <<>> /\ probe.out[1].returned) =>
    probe.out[1].terrain_seed_f # probe.out[1].moisture_seed_f

\* seed 9500, where seed + 1000 passes a multiple of 10000: the samples take
\* seed_f 0.95 and 0.05
C16_Witness ==
  /\ probe.op = "seed"
  /\ probe.in[2] = <<0, 0, 0, 0, 9500>>
  /\ probe.out # <<>>
  /\ probe.out[1].returned
  /\ probe.out[1].terrain_seed_f = 9500
  /\ probe.out[1].moisture_seed_f = 500

\* C17: a step of camera_movement with input value v adds v * elapsed
\* seconds * 200 to the x and y translation of the camera and leaves its z
\* translation, the registry, the seed, the chunk entities and the queued
\* commands as they are; with v = (0, 0) the camera stays where it is.
C17_CameraFrame ==
  [][\A v \in {-1, 0, 1} \X {-1, 0, 1} :
       camera_movement(v, DeltaMs) =>
         /\ camera'[1] - camera[1] = v[1] * ((DeltaMs * 200 * Sub) \div 1000)
         /\ camera'[2] - camera[2] = v[2] * ((DeltaMs * 200 * Sub) \div 1000)
         /\ camera'[3] = camera[3]
         /\ (v = <<0, 0>> => camera' = camera)
         /\ spawned_chunks' = spawned_chunks
         /\ world_seed' = world_seed
         /\ entities' = entities
         /\ commands' = commands
         /\ state' = state]_vars

\* the camera has just moved diagonally over a loaded world
C17_Witness ==
  /\ state = "Playing"
  /\ stage = "StateTransition"
  /\ last_tick # NoCamera
  /\ camera[1] - last_tick[1] = (DeltaMs * 200 * Sub) \div 1000
  /\ camera[2] - last_tick[2] = -((DeltaMs * 200 * Sub) \div 1000)
  /\ camera[3] = last_tick[3]
  /\ Cardinality(entities) = 25
  /\ Cardinality(spawned_chunks) = 25

\* C18: for every chunk coordinate c within 10^4 chunks (10^5 tiles) of the
\* origin, negative ones included, the transform of the chunk is the exact
\* product c * 160 and the coordinate despawn_outofrange_chunks recovers from
\* it is c.
C18_RoundTrip ==
  (probe.op = "round_trip" /\ probe.out # <<>>) =>
    /\ probe.out[2] = probe.in
    /\ \A a \in 1..2 :
         /\ probe.out[1][a] = probe.in[a] * 160 * Sub
         /\ Abs(probe.in[a] * 160) <= F32_EXACT

\* the chunk at the negative end of x and the positive end of y
C18_Witness ==
  /\ probe.op = "round_trip"
  /\ probe.in = <<-10000, 10000>>
  /\ probe.out = <<<<-1600000 * Sub, 1600000 * Sub>>, <<-10000, 10000>>>>

\* C19: at the end of every tick, wherever the camera is, the chunk with
\* origin <= camera position < origin + 160 on both axes and its eight
\* neighbours are in the registry and exist as chunk entities.
C19_ViewpointLoaded ==
  (state = "Playing" /\ stage = "PreUpdate" /\ last_tick # NoCamera) =>
    LET gx == camera[1] \div (160 * Sub)
        gy == camera[2] \div (160 * Sub)
    IN  /\ gx * 160 * Sub <= camera[1] /\ camera[1] < (gx + 1) * 160 * Sub
        /\ gy * 160 * Sub <= camera[2] /\ camera[2] < (gy + 1) * 160 * Sub
        /\ \A dx \in {-1, 0, 1}, dy \in {-1, 0, 1} :
             /\ <<gx + dx, gy + dy>> \in spawned_chunks
             /\ \E e \in entities :
                  e.translation = <<(gx + dx) * 160 * Sub, (gy + dy) * 160 * Sub>>

\* the end of a tick with the camera at a negative x inside chunk -1, which
\* the streaming systems count to chunk 0
C19_Witness ==
  /\ state = "Playing"
  /\ stage = "PreUpdate"
  /\ last_tick = camera
  /\ camera[1] < 0 /\ camera[1] > -160 * Sub
  /\ camera[2] < -160 * Sub
  /\ CameraChunk[1] = 0
  /\ <<-2, CameraChunk[2] - 2>> \in spawned_chunks
  /\ <<-2, CameraChunk[2] - 2>> \in Coords(entities)

====
